---- MODULE Spec2Model ----
(***************************************************************************)
(* A model of the Iog logger (fabioricali/iog).                            *)
(*                                                                         *)
(* The repository holds two versions of the class Iog:                     *)
(*   "base"  src/src/iog.js        (options path, logExt, separator,       *)
(*                                  console, rotation, deleteAge)          *)
(*   "slim"  src/unnamed/part_000  (the same, plus slim and onLog)         *)
(* The variable `variant` says which of the two the modelled process runs. *)
(*                                                                         *)
(* Time is in milliseconds since 2024-01-01 00:00:00.000 (local time).     *)
(***************************************************************************)
EXTENDS Integers, Sequences, FiniteSets, TLC

VARIABLES
    variant,      \* which version of the class is loaded: "base" or "slim"
    args,         \* the constructor's arguments: [ctx, opts]
    mkdirOk,      \* environment: whether mkdirp.sync will succeed
    status,       \* "new" (not yet constructed), "live", "threw"
    thrown,       \* what the constructor threw: "none", "TypeError", "IOError"
    contextName,  \* this.contextName
    opts,         \* this.opts
    _paused,       \* this._paused
    now,          \* the wall clock, ms
    dirs,         \* the directories that exist
    files,        \* path -> [recs, mtime]: the files that exist
    cons,         \* what was written to the console: <<[id, level, text]>>
    pending,      \* fs.appendFile requests in flight
    onLogCalls,   \* the invocations of opts.onLog: <<[id, body, type]>>
    faults,       \* errors thrown out of a callback (uncaught)
    crashed,      \* the process died of an uncaught exception
    timers,       \* the due times of the armed setTimeout timers
    sweeps,       \* the times at which _clear ran
    appends,      \* the appends carried out: <<[id, path, text, at]>>
    calls         \* the calls made on the public API, in order

vars == <<variant, args, mkdirOk, status, thrown, contextName, opts, _paused,
          now, dirs, files, cons, pending, onLogCalls, faults, crashed, timers,
          sweeps, appends, calls>>

-----------------------------------------------------------------------------
(* Bounds of the model *)

MaxCalls == 2
MaxSweeps == 2
MaxDay == 3

-----------------------------------------------------------------------------
(* Program constants *)

DAY_SECONDS == 86400

SEPARATOR == "\n\n---------------------------------------------------------------------------------------\n\n"

\* milliseconds in a second: Date arithmetic and setTimeout count milliseconds
MS == 1000

DayMs == DAY_SECONDS * MS

\* process.cwd(), against which path.resolve resolves a relative path
Cwd == "/cwd"

-----------------------------------------------------------------------------
(* JavaScript primitives *)

\* a JavaScript number that need not be whole, as the fraction num / den
\* (den > 0): the option deleteAge is one
Number(num, den) == [num |-> num, den |-> den]

\* x * k, for a number x and a whole k
Times(x, k) == Number(x.num * k, x.den)

\* the whole part of a number that is not negative
Floor(x) == x.num \div x.den

\* a number as a condition: if (x)
Truthy(x) == x.num # 0

\* Object.assign(target, source): source's own keys overwrite target's
ObjectAssign(target, source) ==
    [k \in (DOMAIN target) \cup (DOMAIN source) |->
        IF k \in DOMAIN source THEN source[k] ELSE target[k]]

\* path.isAbsolute(p)
IsAbsolute(p) == Len(p) > 0 /\ SubSeq(p, 1, 1) = "/"

\* path.resolve(a, b) for a relative b: an empty segment is skipped
PathResolve(a, b) ==
    LET base == IF a = "" THEN Cwd
                ELSE IF IsAbsolute(a) THEN a
                ELSE Cwd \o "/" \o a
    IN IF b = "" THEN base ELSE base \o "/" \o b

Pad2(n) == IF n < 10 THEN "0" \o ToString(n) ELSE ToString(n)

Pad3(n) == IF n < 10 THEN "00" \o ToString(n)
           ELSE IF n < 100 THEN "0" \o ToString(n) ELSE ToString(n)

DayOf(t) == t \div DayMs

\* dateFormat(t, 'yyyy-mm-dd'), for the days of January 2024
FormatDate(t) == "2024-01-" \o Pad2(DayOf(t) + 1)

\* dateFormat(t, 'yyyy-mm-dd HH:MM:ss:l')
FormatTimestamp(t) ==
    LET r == t % DayMs
    IN FormatDate(t) \o " " \o Pad2(r \div 3600000) \o ":"
         \o Pad2((r % 3600000) \div 60000) \o ":"
         \o Pad2((r % 60000) \div MS) \o ":" \o Pad3(r % MS)

\* the index of the last occurrence of the character c in s[1..i], or 0
RECURSIVE LastIndexOf(_, _, _)
LastIndexOf(s, c, i) ==
    IF i = 0 THEN 0
    ELSE IF SubSeq(s, i, i) = c THEN i
    ELSE LastIndexOf(s, c, i - 1)

\* a path as the file system sees it: relative paths hang off process.cwd()
AbsPath(p) ==
    IF IsAbsolute(p) THEN p
    ELSE IF p = "" THEN Cwd
    ELSE Cwd \o "/" \o p

\* path.dirname(p) of an absolute path
DirName(p) ==
    LET i == LastIndexOf(p, "/", Len(p))
    IN IF i <= 1 THEN "/" ELSE SubSeq(p, 1, i - 1)

\* path.basename(p)
BaseName(p) == SubSeq(p, LastIndexOf(p, "/", Len(p)) + 1, Len(p))

\* path.extname(p): from the last dot of the base name, unless it starts the name
ExtName(p) ==
    LET b == BaseName(p)
        i == LastIndexOf(b, ".", Len(b))
    IN IF i <= 1 THEN "" ELSE SubSeq(b, i, Len(b))

StartsWith(s, pre) == Len(s) >= Len(pre) /\ SubSeq(s, 1, Len(pre)) = pre

\* mkdirp.sync creating nothing
MkdirpSync_none(p) == {"/"}

\* the directories mkdirp.sync(p) leaves in existence: p and its ancestors
RECURSIVE MkdirpSync(_)
MkdirpSync(p) ==
    IF p = "/" THEN {"/"} ELSE {p} \cup MkdirpSync(DirName(p))

\* find-remove's findRemoveSync(dir, {age: {seconds}, extensions}) at time t:
\* of the files under dir, those with one of the extensions and older than
\* the age are removed; a directory that does not exist is left alone (the
\* times being whole milliseconds, t > mtime + age holds exactly when
\* t > mtime + the whole part of age)
FindRemoveSync(fs, dir, ageSeconds, extensions, t) ==
    LET root == AbsPath(dir)
        under(q) == DirName(q) = root \/ StartsWith(DirName(q), root \o "/")
        doomed(q) == /\ under(q)
                     /\ ExtName(q) \in extensions
                     /\ t > fs[q].mtime + Floor(Times(ageSeconds, MS))
    IN [q \in {r \in DOMAIN fs : ~doomed(r)} |-> fs[q]]

\* fs.appendFile's write: the file is created when missing, the data appended
AppendToFile(fs, p, rec, t) ==
    [q \in (DOMAIN fs) \cup {p} |->
        IF q = p
        THEN [recs |-> Append(IF p \in DOMAIN fs THEN fs[p].recs ELSE <<>>, rec),
              mtime |-> t]
        ELSE fs[q]]

-----------------------------------------------------------------------------
(* Messages: what a caller passes as msg *)

MsgUndefined == [kind |-> "undefined", s |-> ""]
MsgString == [kind |-> "string", s |-> "hello"]
MsgObject == [kind |-> "object", s |-> "a"]      \* the object {a: 1}
MsgError == [kind |-> "error", s |-> "boom"]     \* new Error('boom')

Msgs == {MsgUndefined, MsgString, MsgObject, MsgError}

\* typeof msg === 'object'
TypeofObject(m) == m.kind \in {"object", "error"}

\* isError(msg)
IsError(m) == m.kind = "error"

\* JSON text of a value: a string quoted, {a: 1} with its key, an Error as {}
\* (an Error has no enumerable property)
JsonOf(m, space) ==
    CASE m.kind = "string" -> "\"" \o m.s \o "\""
      [] m.kind = "object" -> IF space = 0
                              THEN "{\"" \o m.s \o "\":1}"
                              ELSE "{\n  \"" \o m.s \o "\": 1\n}"
      [] m.kind = "error" -> "{}"
      [] OTHER -> "undefined"

\* stringify(msg, {replace: null, space: 2})
Stringify(m, space) == [kind |-> "string", s |-> JsonOf(m, space)]

\* `${msg}`: String(msg); Error.prototype.toString gives "Error: <message>"
TemplateString(m) ==
    CASE m.kind = "string" -> m.s
      [] m.kind = "error" -> "Error: " \o m.s
      [] m.kind = "object" -> "[object Object]"
      [] OTHER -> "undefined"

\* a parameter's default value: msg = ''
DefaultMsg(m) == IF m.kind = "undefined" THEN [kind |-> "string", s |-> ""] ELSE m

\* the properties of console that a type can name (type in console): the
\* logging methods, and time, which starts a timer
ConsoleMethods == {"log", "info", "warn", "error", "trace", "debug", "time"}

\* console[level](text), for the call tagged id: the logging methods print
\* the text, console.time(text) starts a timer labelled text and prints
\* nothing
ConsoleCall(out, id, level, text) ==
    IF level = "time" THEN out
    ELSE Append(out, [id |-> id, level |-> level, text |-> text])

-----------------------------------------------------------------------------
(* The inputs of the model *)

OptNames == {"path", "logExt", "separator", "console", "rotation",
             "deleteAge", "slim", "onLog"}

NoOpts == [k \in {} |-> ""]

AllOpts ==
    [path |-> "x", logExt |-> ".txt", separator |-> "\n", console |-> FALSE,
     rotation |-> TRUE, deleteAge |-> Number(1, 1), slim |-> TRUE, onLog |-> "function"]

\* a deleteAge of a fraction of a day: 0.0005 days, 43.2 seconds
ShortAge == Number(1, 2000)

\* the opts objects callers pass: each option is supplied by at least one
SuppliedOpts ==
    { NoOpts,
      ("path" :> "") @@ ("deleteAge" :> Number(1, 1)),
      ("path" :> "x") @@ ("separator" :> "\n") @@ ("console" :> FALSE)
          @@ ("logExt" :> ".txt"),
      ("rotation" :> TRUE),
      ("rotation" :> TRUE) @@ ("deleteAge" :> ShortAge)
          @@ ("onLog" :> "function"),
      ("rotation" :> TRUE) @@ ("deleteAge" :> Number(2, 1))
          @@ ("path" :> "/var/log"),
      ("slim" :> TRUE) @@ ("onLog" :> "function") }

CtxUndefined == [given |-> FALSE, value |-> ""]
CtxEmpty == [given |-> TRUE, value |-> ""]
CtxSvc == [given |-> TRUE, value |-> "svc"]

\* the programs run: the version of the class loaded and the (contextName,
\* opts) pair its constructor is given
Programs ==
    { [variant |-> "slim", ctx |-> CtxSvc, opts |-> o] : o \in SuppliedOpts }
      \cup { [variant |-> "base", ctx |-> CtxSvc, opts |-> AllOpts],
             [variant |-> "slim", ctx |-> CtxEmpty, opts |-> NoOpts],
             [variant |-> "slim", ctx |-> CtxUndefined,
              opts |-> ("rotation" :> TRUE) @@ ("deleteAge" :> Number(1, 1))],
             [variant |-> "base", ctx |-> CtxUndefined, opts |-> NoOpts] }

\* the (msg, type, show) triples write is called with: every message with the
\* defaults, a custom type shown and not shown, and a type that names a
\* property of console that is not a logging method
WriteInputs ==
    { <<m, "log", TRUE>> : m \in Msgs }
      \cup { <<MsgString, "custom", sh>> : sh \in BOOLEAN }
      \cup { <<MsgString, "time", TRUE>> }

\* the messages the wrappers error, warn, info and trace are called with
WrapperMsgs == {MsgUndefined, MsgError}

\* the process starts in the last millisecond of day 2
StartTime == 3 * DayMs - 1

\* log files left by earlier runs in the rotation directory /var/log/svc:
\* one older than two days at StartTime, one exactly two days old, one of
\* yesterday, and an old file with another extension
OldFiles ==
    ("/var/log/svc/2023-12-31.log" :>
        [recs |-> <<>>, mtime |-> StartTime - 2 * DayMs - 1])
 @@ ("/var/log/svc/2024-01-01.log" :>
        [recs |-> <<>>, mtime |-> StartTime - 2 * DayMs])
 @@ ("/var/log/svc/2024-01-02.log" :>
        [recs |-> <<>>, mtime |-> StartTime - DayMs])
 @@ ("/var/log/svc/notes.txt" :> [recs |-> <<>>, mtime |-> 0])

\* the directories that exist when the process starts
OldDirs == MkdirpSync("/var/log/svc") \cup MkdirpSync(Cwd)

Init ==
    /\ \E p \in Programs :
         /\ variant = p.variant
         /\ args = [ctx |-> p.ctx, opts |-> p.opts]
    /\ mkdirOk \in BOOLEAN
    /\ status = "new"
    /\ thrown = "none"
    /\ contextName = ""
    /\ opts = NoOpts
    /\ _paused = FALSE
    /\ now = StartTime
    /\ dirs = OldDirs
    /\ files = OldFiles
    /\ cons = <<>>
    /\ pending = {}
    /\ onLogCalls = <<>>
    /\ faults = <<>>
    /\ crashed = FALSE
    /\ timers = {}
    /\ sweeps = <<>>
    /\ appends = <<>>
    /\ calls = <<>>

-----------------------------------------------------------------------------
(* The class Iog *)

\* the defaults the two versions of the constructor merge with opts
DefaultsBase ==
    [path |-> "log", logExt |-> ".log", separator |-> SEPARATOR,
     console |-> TRUE, rotation |-> FALSE, deleteAge |-> Number(0, 1)]

DefaultsSlim ==
    [path |-> "logs", logExt |-> ".log", separator |-> SEPARATOR,
     console |-> TRUE, rotation |-> FALSE, deleteAge |-> Number(0, 1),
     slim |-> FALSE, onLog |-> "null"]

\* this.opts = Object.assign(...): base assigns the defaults onto opts, slim
\* assigns opts onto the defaults
MergeOpts(v, o) ==
    IF v = "base" THEN ObjectAssign(o, DefaultsBase)
    ELSE ObjectAssign(DefaultsSlim, o)

\* the delay _clear passes to setTimeout, which counts milliseconds
ClearDelay == DAY_SECONDS

\* _clear taking deleteAge for a number of seconds
_clear_seconds(o, fired) ==
    /\ files' = FindRemoveSync(files, o.path, o.deleteAge, {o.logExt}, now)
    /\ timers' = (timers \ fired) \cup {now + ClearDelay}
    /\ sweeps' = Append(sweeps, now)

\* _clear() on the Logger with options o, run by the timer due at `fired`
\* (or by the constructor when fired = {})
_clear(o, fired) ==
    /\ files' = FindRemoveSync(files, o.path, Times(o.deleteAge, DAY_SECONDS),
                               {o.logExt}, now)
    /\ timers' = (timers \ fired) \cup {now + ClearDelay}
    /\ sweeps' = Append(sweeps, now)

\* _filePath naming the file by the date whatever the rotation option
_filePath_dated(t) == opts.path \o "/" \o FormatDate(t) \o opts.logExt

\* _filePath keeping to the date the process started on
_filePath_startdate(t) ==
    LET fileName == IF opts.rotation THEN FormatDate(StartTime) ELSE contextName
    IN opts.path \o "/" \o fileName \o opts.logExt

\* _filePath() when the clock reads t
_filePath(t) ==
    LET fileName == IF opts.rotation THEN FormatDate(t) ELSE contextName
    IN opts.path \o "/" \o fileName \o opts.logExt

\* the sweeper set going whatever the rotation option
Sweeping_any(o) == Truthy(o.deleteAge)

\* the constructor's test for running _clear: rotation, and deleteAge truthy
Sweeping(o) == o.rotation /\ Truthy(o.deleteAge)

\* new Iog(contextName, opts)
constructor ==
    /\ status = "new"
    /\ IF ~args.ctx.given
       THEN /\ status' = "threw"
            /\ thrown' = "TypeError"
            /\ UNCHANGED <<contextName, opts, _paused, files, timers, sweeps, dirs>>
       ELSE LET o1 == MergeOpts(variant, args.opts)
                o2 == IF o1.rotation
                      THEN [o1 EXCEPT !.path = PathResolve(o1.path, args.ctx.value)]
                      ELSE o1
            IN /\ contextName' = args.ctx.value
               /\ opts' = o2
               /\ _paused' = FALSE
               /\ IF Sweeping(o2)
                  THEN _clear(o2, {})
                  ELSE UNCHANGED <<files, timers, sweeps>>
               /\ IF o2.path # ""
                  THEN IF mkdirOk
                       THEN /\ dirs' = dirs \cup MkdirpSync(AbsPath(o2.path))
                            /\ status' = "live"
                            /\ thrown' = "none"
                       ELSE /\ status' = "threw"
                            /\ thrown' = "IOError"
                            /\ UNCHANGED dirs
                  ELSE /\ status' = "live"
                       /\ thrown' = "none"
                       /\ UNCHANGED dirs
    /\ UNCHANGED <<appends, variant, args, mkdirOk, now, cons, pending, onLogCalls,
                   faults, crashed, calls>>

\* pause calling off the appends in flight
pause_cancelling ==
    /\ _paused' = TRUE
    /\ pending' = {}
    /\ UNCHANGED <<appends, variant, args, mkdirOk, status, thrown,
                   contextName, opts, now, dirs, files, cons, onLogCalls,
                   faults, crashed, timers, sweeps>>

\* pause()
pause ==
    /\ _paused' = TRUE
    /\ UNCHANGED <<appends, variant, args, mkdirOk, status, thrown, contextName, opts,
                   now, dirs, files, cons, pending, onLogCalls, faults,
                   crashed, timers, sweeps>>

\* resume()
resume ==
    /\ _paused' = FALSE
    /\ UNCHANGED <<appends, variant, args, mkdirOk, status, thrown, contextName, opts,
                   now, dirs, files, cons, pending, onLogCalls, faults,
                   crashed, timers, sweeps>>

\* the record write renders from msg at the timestamp `date`
RenderBody(msg, type, date) ==
    IF variant = "slim" /\ opts.slim
    THEN "{\"CONTEXT\":\"" \o contextName \o "\",\"DATE\":\"" \o date
           \o "\",\"TYPE\":\"" \o type \o "\",\"BODY\":" \o JsonOf(msg, 0)
           \o "}\n"
    ELSE LET m == IF TypeofObject(msg) /\ ~IsError(msg)
                  THEN Stringify(msg, 2) ELSE msg
         IN "CONTEXT: " \o contextName \o "\nDATE: " \o date \o "\nTYPE: "
              \o type \o "\nBODY:\n\n" \o TemplateString(m) \o opts.separator

\* the console method write calls for a type
ConsoleLevel(type) == IF type \in ConsoleMethods THEN type ELSE "log"

\* what the clock can read at _filePath's new Date(), after write's own read:
\* the same instant, or the next millisecond (told apart only across midnight)
SecondRead(t) == {t} \cup (IF (t + 1) % DayMs = 0 THEN {t + 1} ELSE {})

\* write past its pause check: the record is rendered, shown on the console
\* and handed to fs.appendFile; id tags the call in what it puts out
Emit(m, type, show) ==
    LET id == Len(calls) + 1
        body == RenderBody(DefaultMsg(m), type, FormatTimestamp(now))
    IN /\ cons' = IF opts.console /\ show
                  THEN ConsoleCall(cons, id, ConsoleLevel(type), body)
                  ELSE cons
       /\ \E t2 \in SecondRead(now) :
            /\ now' = t2
            /\ pending' = pending \cup
                  {[id |-> id, path |-> _filePath(t2), body |-> body,
                    type |-> type, stage |-> "queued"]}
       /\ UNCHANGED <<appends, variant, args, mkdirOk, status, thrown, contextName,
                      opts, _paused, dirs, files, onLogCalls, faults, crashed,
                      timers, sweeps>>

\* write without its pause check
write_unpaused(m, type, show) == Emit(m, type, show)

\* write(msg, type, show)
write(m, type, show) ==
    IF _paused
    THEN UNCHANGED <<appends, variant, args, mkdirOk, status, thrown, contextName, opts,
                     _paused, now, dirs, files, cons, pending, onLogCalls,
                     faults, crashed, timers, sweeps>>
    ELSE Emit(m, type, show)

\* error(msg), warn(msg), info(msg), trace(msg)
error(m) == write(m, "error", TRUE)

\* warn logging under the type of error
warn_as_error(m) == write(m, "error", TRUE)

warn(m) == write(m, "warn", TRUE)

info(m) == write(m, "info", TRUE)

trace(m) == write(m, "trace", TRUE)

-----------------------------------------------------------------------------
(* The environment: the caller, the file system, the event loop, the clock *)

Live == status = "live" /\ ~crashed

Logged(api, m, type, show) ==
    calls' = Append(calls, [api |-> api, msg |-> m, type |-> type,
                            show |-> show, paused |-> _paused])

Construct == ~crashed /\ constructor

Pause == Live /\ pause /\ UNCHANGED calls

Resume == Live /\ resume /\ UNCHANGED calls

Write ==
    /\ Live /\ Len(calls) < MaxCalls
    /\ \E i \in WriteInputs :
         write(i[1], i[2], i[3]) /\ Logged("write", i[1], i[2], i[3])

Error ==
    /\ Live /\ Len(calls) < MaxCalls
    /\ \E m \in WrapperMsgs : error(m) /\ Logged("error", m, "error", TRUE)

Warn ==
    /\ Live /\ Len(calls) < MaxCalls
    /\ \E m \in WrapperMsgs : warn(m) /\ Logged("warn", m, "warn", TRUE)

Info ==
    /\ Live /\ Len(calls) < MaxCalls
    /\ \E m \in WrapperMsgs : info(m) /\ Logged("info", m, "info", TRUE)

Trace ==
    /\ Live /\ Len(calls) < MaxCalls
    /\ \E m \in WrapperMsgs : trace(m) /\ Logged("trace", m, "trace", TRUE)

\* onLog held back while the Logger is paused
HasOnLog_unless_paused ==
    variant = "slim" /\ opts.onLog = "function" /\ ~_paused

\* typeof this.opts.onLog === 'function', in the version that has the option
HasOnLog == variant = "slim" /\ opts.onLog = "function"

\* onLog given its arguments the wrong way round
OnLogArgs_swapped(r) == [id |-> r.id, body |-> r.type, type |-> r.body]

\* this.opts.onLog(body, type), for the request r the callback closes over
OnLogArgs(r) == [id |-> r.id, body |-> r.body, type |-> r.type]

\* the thread pool carries out one fs.appendFile request and the data reaches
\* the file, which is created when missing
AppendIO ==
    /\ ~crashed
    /\ \E r \in pending :
         /\ r.stage = "queued"
         /\ DirName(AbsPath(r.path)) \in dirs
         /\ files' = AppendToFile(files, AbsPath(r.path),
                                  [id |-> r.id, text |-> r.body], now)
         /\ pending' = (pending \ {r}) \cup {[r EXCEPT !.stage = "written"]}
         /\ appends' = Append(appends, [id |-> r.id, path |-> AbsPath(r.path),
                                        text |-> r.body, at |-> now])
    /\ UNCHANGED <<variant, args, mkdirOk, status, thrown, contextName, opts,
                   _paused, now, dirs, cons, onLogCalls, faults, crashed,
                   timers, sweeps, calls>>

\* the callback write gave fs.appendFile, (err) => { if (err) throw err; ... },
\* run by the event loop once the data is written
AppendCallback ==
    /\ ~crashed
    /\ \E r \in pending :
         /\ r.stage = "written"
         /\ pending' = pending \ {r}
         /\ onLogCalls' = IF HasOnLog
                          THEN Append(onLogCalls, OnLogArgs(r))
                          ELSE onLogCalls
    /\ UNCHANGED <<appends, variant, args, mkdirOk, status, thrown, contextName, opts,
                   _paused, now, dirs, files, cons, faults, crashed, timers,
                   sweeps, calls>>

\* the callback dropping the error instead of throwing it
AppendFailure_swallowed ==
    /\ ~crashed
    /\ \E r \in pending :
         /\ r.stage = "queued"
         /\ pending' = pending \ {r}
    /\ UNCHANGED <<appends, variant, args, mkdirOk, status, thrown, contextName, opts,
                   _paused, now, dirs, files, cons, onLogCalls, faults,
                   crashed, timers, sweeps, calls>>

\* the same callback run with err set, the request having failed (no such
\* directory, no permission, disk full): the throw is an uncaught exception
AppendFailure ==
    /\ ~crashed
    /\ \E r \in pending :
         /\ r.stage = "queued"
         /\ pending' = pending \ {r}
         /\ faults' = Append(faults, [id |-> r.id, path |-> r.path])
         /\ crashed' = TRUE
    /\ UNCHANGED <<appends, variant, args, mkdirOk, status, thrown, contextName, opts,
                   _paused, now, dirs, files, cons, onLogCalls, timers, sweeps,
                   calls>>

\* a timer armed by _clear comes due: () => { this._clear() }
TimerFire ==
    /\ ~crashed
    /\ Len(sweeps) < MaxSweeps
    /\ \E d \in timers :
         /\ d <= now
         /\ _clear(opts, {d})
    /\ UNCHANGED <<appends, variant, args, mkdirOk, status, thrown, contextName, opts,
                   _paused, now, dirs, cons, pending, onLogCalls, faults,
                   crashed, calls>>

\* the instants the clock is observed at next: the last millisecond of the
\* day, midnight, or the time the next timer is due, whichever comes first
NextInstants ==
    LET midnight == (DayOf(now) + 1) * DayMs
    IN { t \in {u \in {midnight - 1, midnight} : u <= MaxDay * DayMs}
                 \cup (IF Len(sweeps) < MaxSweeps THEN timers ELSE {}) :
           /\ t > now
           /\ \A d \in timers : t <= d }

Tick ==
    /\ ~crashed
    /\ \E t \in NextInstants : now' = t
    /\ UNCHANGED <<appends, variant, args, mkdirOk, status, thrown, contextName, opts,
                   _paused, dirs, files, cons, pending, onLogCalls, faults,
                   crashed, timers, sweeps, calls>>

Next ==
    \/ Construct
    \/ Pause
    \/ Resume
    \/ Write
    \/ Error
    \/ Warn
    \/ Info
    \/ Trace
    \/ AppendIO
    \/ AppendCallback
    \/ AppendFailure
    \/ TimerFire
    \/ Tick

Spec == Init /\ [][Next]_vars

-----------------------------------------------------------------------------
(* What the claims speak of *)

\* the calls made while the Logger was not paused, and those made while paused
Accepted == {i \in 1..Len(calls) : ~calls[i].paused}

Dropped == {i \in 1..Len(calls) : calls[i].paused}

Range(q) == {q[i] : i \in 1..Len(q)}

\* the records appended, each with the file it was appended to
Appended == Range(appends)

ConsIds == {e.id : e \in Range(cons)}
PendingIds == {r.id : r \in pending}
AppendedIds == {a.id : a \in Appended}
OnLogIds == {e.id : e \in Range(onLogCalls)}
FaultIds == {f.id : f \in Range(faults)}

\* how often the call id shows in a sequence of tagged entries
Count(q, id) == Cardinality({i \in 1..Len(q) : q[i].id = id})

CountAppended(id) == Count(appends, id)

Wrappers == {"error", "warn", "info", "trace"}

-----------------------------------------------------------------------------
(* C1: a write made while the Logger is paused puts nothing on the console
   and appends nothing, and resume does not replay it: whatever is on the
   console, in flight, in a file, passed to onLog or thrown comes from a call
   made while not paused, and comes from it once. *)
C1_PausedWritesDropped ==
    /\ (ConsIds \cup PendingIds \cup AppendedIds \cup OnLogIds \cup FaultIds)
          \subseteq Accepted
    /\ \A id \in Accepted :
         /\ Count(cons, id) <= 1
         /\ Cardinality({r \in pending : r.id = id}) <= 1
         /\ Cardinality({r \in pending : r.id = id /\ r.stage = "queued"})
               + CountAppended(id) + Count(faults, id) = 1

\* a write was dropped while paused, and a later write, made after resume,
\* reached its file
C1_Witness ==
    \E i, j \in 1..Len(calls) :
        /\ i < j
        /\ calls[i].paused
        /\ ~calls[j].paused
        /\ j \in AppendedIds
        /\ ~_paused

-----------------------------------------------------------------------------
(* C2: once every append has completed, each file holds exactly the records
   of the non-paused writes, in the order the write calls were made, whatever
   the order in which the asynchronous appends were carried out. *)
C2_RecordsInCallOrder ==
    (pending = {} /\ ~crashed) =>
        /\ AppendedIds = Accepted
        /\ \A p \in DOMAIN files :
             \A i, j \in 1..Len(files[p].recs) :
                 i < j => files[p].recs[i].id < files[p].recs[j].id

-----------------------------------------------------------------------------
(* C3: after construction every option holds the value the caller supplied,
   and the documented default only when the caller supplied none (the path,
   under rotation, being the supplied or default directory resolved with the
   context name). *)
C3_SuppliedOptsKept ==
    status = "live" =>
        \A k \in OptNames :
            LET given == IF k \in DOMAIN args.opts THEN args.opts[k]
                         ELSE DefaultsSlim[k]
                rotate == IF "rotation" \in DOMAIN args.opts
                          THEN args.opts["rotation"] ELSE FALSE
            IN /\ k \in DOMAIN args.opts => k \in DOMAIN opts
               /\ k \in DOMAIN opts =>
                    IF k = "path"
                    THEN \E dflt \in {"logs", "log"} :
                           LET dir == IF k \in DOMAIN args.opts THEN given
                                      ELSE dflt
                           IN opts[k] = IF rotate
                                        THEN PathResolve(dir, contextName)
                                        ELSE dir
                    ELSE opts[k] = given

-----------------------------------------------------------------------------
(* C4: with an onLog callback configured, onLog is invoked exactly once for
   each write whose append has completed and whose callback has run, with the
   text that was appended and the type of that write; it is not invoked for a
   write whose append has not completed, nor for a write made while paused. *)
C4_OnLogAfterAppend ==
    (status = "live" /\ HasOnLog) =>
        /\ \A e \in Range(onLogCalls) :
             /\ e.id \in Accepted
             /\ e.id \notin PendingIds
             /\ e.type = calls[e.id].type
             /\ \E a \in Appended : a.id = e.id /\ a.text = e.body
        /\ \A id \in 1..Len(calls) :
             Count(onLogCalls, id) =
                IF id \in AppendedIds /\ id \notin PendingIds THEN 1 ELSE 0

\* onLog has been invoked for one write while the append of another, of
\* another type, is still in flight
C4_Witness ==
    /\ status = "live" /\ HasOnLog
    /\ \E e \in Range(onLogCalls) :
         \E r \in pending : r.stage = "queued" /\ r.type # e.type
    /\ Dropped = {}

-----------------------------------------------------------------------------
(* C5: in both versions of write, a failed append is thrown out of the
   callback as an uncaught exception, never swallowed: a request leaves the
   queue only by reaching its file or by being thrown, a thrown failure ends
   the process, and onLog is not invoked for it. *)
C5_AppendFailureIsFatal ==
    /\ \A id \in Accepted : id \in PendingIds \cup AppendedIds \cup FaultIds
    /\ faults # <<>> => crashed
    /\ FaultIds \cap OnLogIds = {}

\* an append failed after another write's append succeeded and was reported
\* to onLog
C5_Witness ==
    /\ status = "live" /\ HasOnLog
    /\ crashed
    /\ Len(faults) = 1
    /\ Len(onLogCalls) = 1

-----------------------------------------------------------------------------
(* C6: with rotation enabled and deleteAge > 0 one sweep runs during
   construction, and each next sweep is scheduled exactly 86,400 seconds
   after the previous one. *)
C6_SweepEveryDay ==
    (status # "new" /\ thrown # "TypeError" /\ opts.rotation
        /\ opts.deleteAge.num > 0) =>
        /\ Len(sweeps) >= 1
        /\ \A d \in timers : d = sweeps[Len(sweeps)] + DAY_SECONDS * MS
        /\ \A i \in 2..Len(sweeps) :
             sweeps[i] = sweeps[i - 1] + DAY_SECONDS * MS

-----------------------------------------------------------------------------
(* C7: each sweep deletes exactly the files of the rotation directory that
   have the configured extension and are older than deleteAge * 86400
   seconds; every other file is left as it was. *)
C7_SweepDeletesExpired ==
    [][sweeps' # sweeps =>
         LET expired(q) ==
                 /\ DirName(q) = opts'.path
                 /\ ExtName(q) = opts'.logExt
                 /\ (now - files[q].mtime) * opts'.deleteAge.den
                       > opts'.deleteAge.num * DAY_SECONDS * MS
         IN /\ DOMAIN files' = {q \in DOMAIN files : ~expired(q)}
            /\ \A q \in DOMAIN files' : files'[q] = files[q]]_vars

\* the first sweep removed the file older than two days and kept the file
\* exactly two days old, yesterday's file and the file with another extension
C7_Witness ==
    /\ Len(sweeps) = 1
    /\ opts.deleteAge = Number(2, 1)
    /\ DOMAIN files = {"/var/log/svc/2024-01-01.log",
                       "/var/log/svc/2024-01-02.log",
                       "/var/log/svc/notes.txt"}

-----------------------------------------------------------------------------
(* C8: construction with an absent or empty contextName throws a
   configuration error and has no side effect (no directory, no sweep, no
   timer), so that every Logger has a non-empty contextName. *)
C8_EmptyContextRejected ==
    /\ (status # "new" /\ (~args.ctx.given \/ args.ctx.value = "")) =>
          /\ status = "threw"
          /\ thrown = "TypeError"
          /\ dirs = OldDirs
          /\ files = OldFiles
          /\ sweeps = <<>>
          /\ timers = {}
    /\ status = "live" => contextName # ""

-----------------------------------------------------------------------------
(* C9: with rotation disabled the constructor creates no file, and the only
   file the Logger ever creates or appends to is {path}/{contextName}{ext},
   which holds records of non-paused writes only. *)
C9_OnlyContextFile ==
    (status = "live" /\ ~opts.rotation) =>
        LET target == AbsPath(opts.path \o "/" \o contextName \o opts.logExt)
        IN /\ \A p \in DOMAIN OldFiles :
                p \in DOMAIN files /\ files[p] = OldFiles[p]
           /\ \A p \in (DOMAIN files) \ (DOMAIN OldFiles) :
                /\ p = target
                /\ files[p].recs # <<>>
                /\ \A i \in 1..Len(files[p].recs) :
                     files[p].recs[i].id \in Accepted
           /\ \A r \in pending : AbsPath(r.path) = target
           /\ Accepted = {} => files = OldFiles

\* the context's file exists, created by a write that followed a dropped one
C9_Witness ==
    /\ status = "live" /\ ~opts.rotation
    /\ AbsPath(opts.path \o "/" \o contextName \o opts.logExt) \in DOMAIN files
    /\ Dropped # {}
    /\ contextName = "svc"

-----------------------------------------------------------------------------
(* C10: in every state, error(m), warn(m), info(m) and trace(m) change the
   state exactly as write(m, 'error'), write(m, 'warn'), write(m, 'info')
   and write(m, 'trace') with show = true do. *)
C10_WrappersAreWrites ==
    [][\A w \in Wrappers, m \in Msgs :
          calls' = Append(calls, [api |-> w, msg |-> m, type |-> w,
                                  show |-> TRUE, paused |-> _paused])
             => write(m, w, TRUE)]_vars

\* a wrapper was called while not paused and its record is on the console
\* and in its file
C10_Witness ==
    \E i \in 1..Len(calls) :
        /\ calls[i].api = "warn"
        /\ ~calls[i].paused
        /\ i \in ConsIds
        /\ i \in AppendedIds

-----------------------------------------------------------------------------
(* C11: a write made while not paused puts its record on the console exactly
   once when the console option is on and show is true, and not at all
   otherwise; the level is the type when console has it and 'log' when not;
   the record is handed to fs.appendFile whatever console and show are. *)
C11_ConsoleIffEnabled ==
    status = "live" =>
        \A id \in 1..Len(calls) :
            /\ Count(cons, id) =
                  IF ~calls[id].paused /\ opts.console /\ calls[id].show
                  THEN 1 ELSE 0
            /\ \A e \in Range(cons) :
                  e.id = id =>
                     e.level = IF calls[id].type \in ConsoleMethods
                               THEN calls[id].type ELSE "log"
            /\ ~calls[id].paused =>
                  id \in PendingIds \cup AppendedIds \cup FaultIds

-----------------------------------------------------------------------------
\* the text inside a JSON string literal: quote, backslash and newline escaped
RECURSIVE JsonEscape(_)
JsonEscape(t) ==
    IF t = "" THEN ""
    ELSE LET c == SubSeq(t, 1, 1)
             e == CASE c = "\"" -> "\\\""
                    [] c = "\\" -> "\\\\"
                    [] c = "\n" -> "\\n"
                    [] OTHER -> c
         IN e \o JsonEscape(SubSeq(t, 2, Len(t)))

EndsWith(t, suf) ==
    Len(t) >= Len(suf) /\ SubSeq(t, Len(t) - Len(suf) + 1, Len(t)) = suf

\* the records requested or written, with the call each comes from
Records ==
    {[id |-> r.id, text |-> r.body] : r \in pending}
       \cup {[id |-> a.id, text |-> a.text] : a \in Appended}

\* the length of a timestamp yyyy-mm-dd HH:MM:ss:l
TimestampLen == Len(FormatTimestamp(0))

(* C12: in slim mode the record of a structured, non-error message is one
   line of JSON with the keys CONTEXT, DATE, TYPE and BODY, in which BODY is
   the string holding the pretty-printed (2-space) JSON text of the message,
   not the message itself as a nested value. *)
C12_SlimBodyIsSerializedText ==
    (status = "live" /\ variant = "slim" /\ opts.slim) =>
        \A r \in Records :
            calls[r.id].msg = MsgObject =>
                LET head == "{\"CONTEXT\":\"" \o contextName \o "\",\"DATE\":\""
                    tail == "\",\"TYPE\":\"" \o calls[r.id].type
                              \o "\",\"BODY\":\""
                              \o JsonEscape(JsonOf(MsgObject, 2)) \o "\"}\n"
                IN /\ StartsWith(r.text, head)
                   /\ EndsWith(r.text, tail)
                   /\ Len(r.text) = Len(head) + TimestampLen + Len(tail)

-----------------------------------------------------------------------------
\* the record is made in slim mode
SlimMode == variant = "slim" /\ opts.slim

(* C13: the body of the record of an Error is the Error's message property,
   in standard mode (before the separator) and in slim mode (as the BODY
   string); the body of the record of any other object is its full JSON
   text. *)
C13_ErrorBodyIsMessage ==
    status = "live" =>
        \A r \in Records :
            LET m == calls[r.id].msg
            IN /\ IsError(m) =>
                    IF SlimMode
                    THEN EndsWith(r.text, ",\"BODY\":\"" \o JsonEscape(m.s)
                                            \o "\"}\n")
                    ELSE EndsWith(r.text, "\nBODY:\n\n" \o m.s
                                            \o opts.separator)
               /\ (TypeofObject(m) /\ ~IsError(m)) =>
                    IF SlimMode
                    THEN EndsWith(r.text, ",\"BODY\":" \o JsonOf(m, 0)
                                            \o "}\n")
                    ELSE EndsWith(r.text, "\nBODY:\n\n" \o JsonOf(m, 2)
                                            \o opts.separator)

-----------------------------------------------------------------------------
(* C14: unless the Logger was constructed with rotation on and deleteAge > 0,
   no sweep ever runs, no timer is ever armed and no file is ever deleted. *)
C14_SweeperOnlyWhenConfigured ==
    /\ []((status = "new" \/ thrown = "TypeError"
             \/ ~(opts.rotation /\ opts.deleteAge.num > 0)) =>
              /\ sweeps = <<>>
              /\ timers = {}
              /\ DOMAIN OldFiles \subseteq DOMAIN files)
    /\ [][(status' = "new" \/ thrown' = "TypeError"
             \/ ~(opts'.rotation /\ opts'.deleteAge.num > 0)) =>
              DOMAIN files \subseteq DOMAIN files']_vars

\* a Logger with deleteAge 1 and no rotation, and one with rotation and
\* deleteAge 0, each still without a sweep once it has written to its file
\* and midnight has passed
C14_Witness ==
    /\ status = "live"
    /\ \/ ~opts.rotation /\ opts.deleteAge = Number(1, 1)
       \/ opts.rotation /\ opts.deleteAge = Number(0, 1)
    /\ AppendedIds # {}
    /\ now > StartTime
    /\ sweeps = <<>>

-----------------------------------------------------------------------------
(* C15: with rotation on, every write that is not dropped asks for an append
   to {path}/{yyyy-mm-dd}{logExt} of the day it is when the write computes
   the path, never of an earlier day, and the append goes to that file and to
   no other. *)
C15_RotationFollowsDate ==
    [][(status = "live" /\ opts.rotation) =>
          /\ \A r \in pending' \ pending :
                r.stage = "queued" =>
                   /\ r.path = opts.path \o "/" \o FormatDate(now')
                                  \o opts.logExt
                   /\ DayOf(now') >= DayOf(now)
          /\ \A r \in pending' \ pending :
                r.stage = "written" =>
                   \A p \in DOMAIN files' :
                      IF p = AbsPath(r.path)
                      THEN files'[p].recs =
                              Append(IF p \in DOMAIN files
                                     THEN files[p].recs ELSE <<>>,
                                     [id |-> r.id, text |-> r.body])
                      ELSE p \in DOMAIN files /\ files'[p] = files[p]]_vars

\* a record written before midnight is in the file of its day and a record
\* written after midnight is in the file of the next day
C15_Witness ==
    /\ status = "live" /\ opts.rotation
    /\ \E a, b \in Appended :
          /\ a.id < b.id
          /\ a.path = AbsPath(opts.path \o "/2024-01-03" \o opts.logExt)
          /\ b.path = AbsPath(opts.path \o "/2024-01-04" \o opts.logExt)

-----------------------------------------------------------------------------
\* the directory the caller configured: the path supplied, or the default
BaseDirectory ==
    IF "path" \in DOMAIN args.opts THEN args.opts["path"] ELSE DefaultsSlim.path

(* C16: with rotation on, a construction that returns leaves the directory
   {path}/{contextName} in existence, and it stays in existence; when that
   directory did not exist before, the sweep the constructor runs first
   removes nothing and the constructor still creates the directory. *)
C16_RotationDirCreated ==
    /\ []((status = "live" /\ opts.rotation) =>
              /\ AbsPath(opts.path) = AbsPath(BaseDirectory) \o "/" \o contextName
              /\ AbsPath(opts.path) \in dirs)
    /\ [][(status = "new" /\ status' = "live" /\ opts'.rotation) =>
              /\ AbsPath(opts'.path) \in dirs'
              /\ AbsPath(opts'.path) \notin dirs => files' = files]_vars

\* the constructor swept a directory that did not exist, then created it, and
\* a record has since been appended to a file in it
C16_Witness ==
    /\ status = "live" /\ opts.rotation
    /\ Len(sweeps) >= 1
    /\ AbsPath(opts.path) \notin OldDirs
    /\ AbsPath(opts.path) \in dirs
    /\ \E a \in Appended : DirName(a.path) = AbsPath(opts.path)

-----------------------------------------------------------------------------
(* C17: with rotation on and deleteAge > 0, no sweep, whenever it runs among
   the writes and the appends, deletes the file of the current day, and every
   record appended on the current day is still in its file after the
   sweep. *)
C17_SweepSparesActiveFile ==
    [][(sweeps' # sweeps /\ opts'.rotation /\ opts'.deleteAge.num > 0) =>
          LET active == AbsPath(opts'.path \o "/" \o FormatDate(now)
                                  \o opts'.logExt)
          IN /\ active \in DOMAIN files =>
                  active \in DOMAIN files' /\ files'[active] = files[active]
             /\ \A a \in Range(appends) :
                  DayOf(a.at) = DayOf(now) =>
                     /\ a.path \in DOMAIN files'
                     /\ [id |-> a.id, text |-> a.text]
                           \in Range(files'[a.path].recs)]_vars

-----------------------------------------------------------------------------
\* the state of the Logger and of the process around it, the paused flag
\* apart
Frame == <<variant, args, mkdirOk, status, thrown, contextName, opts, now,
           dirs, files, cons, pending, onLogCalls, faults, crashed, timers,
           sweeps, appends>>

(* C18: a step that changes the paused flag is a pause() or a resume() and
   changes nothing else: options, contextName, files, appends in flight,
   console, timers and sweeps stay as they are; and every pause() leaves the
   flag set, every resume() leaves it clear, whatever it was before, so
   pause() on a paused Logger and resume() on one that is not paused leave
   the Logger as it was. *)
C18_PauseResumeOnlyFlag ==
    [][/\ _paused' # _paused =>
            /\ UNCHANGED <<Frame, calls>>
            /\ IF _paused' THEN pause ELSE resume
       /\ pause => (_paused' /\ UNCHANGED Frame)
       /\ (pause /\ _paused) => UNCHANGED <<Frame, _paused>>
       /\ resume => (~_paused' /\ UNCHANGED Frame)
       /\ (resume /\ ~_paused) => UNCHANGED <<Frame, _paused>>]_vars

\* a Logger paused with an append in flight, a record in a file and the sweep
\* timer armed
C18_Witness ==
    /\ status = "live" /\ _paused
    /\ pending # {}
    /\ appends # <<>>
    /\ timers # {}
    /\ Dropped # {}

-----------------------------------------------------------------------------
\* the Logger was given a function as onLog
OnLogConfigured == variant = "slim" /\ opts.onLog = "function"

(* C19: a request made by a write leaves the queue only by being carried out
   (its record appended, then its callback run and onLog called with the
   record and the type) or by failing, and pause() does not hold it back:
   while the Logger is paused the append of a queued request and the callback
   of a written one can still run. *)
C19_PauseDoesNotCancel ==
    /\ []((status = "live" /\ _paused /\ ~crashed) =>
              \A r \in pending :
                 IF r.stage = "queued"
                 THEN DirName(AbsPath(r.path)) \in dirs => ENABLED AppendIO
                 ELSE ENABLED AppendCallback)
    /\ [][\A r \in pending \ pending' :
              IF r.stage = "queued"
              THEN \/ /\ [r EXCEPT !.stage = "written"] \in pending'
                      /\ Len(appends') = Len(appends) + 1
                      /\ appends'[Len(appends')].id = r.id
                      /\ appends'[Len(appends')].text = r.body
                   \/ /\ faults' # faults
                      /\ faults'[Len(faults')].id = r.id
              ELSE OnLogConfigured =>
                      /\ Len(onLogCalls') = Len(onLogCalls) + 1
                      /\ onLogCalls'[Len(onLogCalls')] =
                            [id |-> r.id, body |-> r.body, type |-> r.type]]_vars

\* the Logger is paused, with onLog configured, while one request waits for
\* its append and another, already appended, waits for its callback: either
\* can run now, and once both have run onLog has been called for both
C19_Witness ==
    /\ status = "live" /\ _paused /\ ~crashed /\ OnLogConfigured
    /\ \E r1, r2 \in pending : r1.stage = "queued" /\ r2.stage = "written"
    /\ ENABLED AppendIO
    /\ ENABLED AppendCallback

-----------------------------------------------------------------------------
\* the length of a date yyyy-mm-dd
DateLen == Len(FormatDate(0))

\* the day in a record's DATE field, which follows the context name
RecordDay(text) ==
    LET head == IF SlimMode
                THEN "{\"CONTEXT\":\"" \o contextName \o "\",\"DATE\":\""
                ELSE "CONTEXT: " \o contextName \o "\nDATE: "
    IN SubSeq(text, Len(head) + 1, Len(head) + DateLen)

\* the day in the name of a file of the rotation directory
FileDay(p) == SubSeq(BaseName(p), 1, DateLen)

(* C20: with rotation on, the day in the DATE field of every record is the
   day in the name of the file the record is appended to. *)
C20_RecordDayIsFileDay ==
    (status = "live" /\ opts.rotation) =>
        /\ \A r \in pending : RecordDay(r.body) = FileDay(r.path)
        /\ \A a \in Appended : RecordDay(a.text) = FileDay(a.path)

====
